---- MODULE Spec2Model ----
(***************************************************************************)
(* SlurmManager (src/SlurmManager.py): a thin adapter around the SLURM     *)
(* command line tools sbatch, squeue and scancel.                          *)
(*                                                                         *)
(* Text is modelled as a sequence of pieces.  A piece is a string that is  *)
(* never split; the piece "\n" is the line break.  The text a sequence     *)
(* stands for is the concatenation of its pieces, so str + str is \o.      *)
(* Output of `sbatch --version` and of `squeue -o %i` is modelled with one *)
(* character per piece; script text with one word per piece (the words are *)
(* chosen so that no concatenation of pieces spells another piece).        *)
(***************************************************************************)
EXTENDS Integers, Sequences, FiniteSets, TLC

\* ------------------------------------------------------------------ bounds

MaxValueLen == 2
MaxPayloadLen == 3
MaxPreambleLen == 2
MaxOutLen == 4
MaxTmpFiles == 2

\* ------------------------------------------------------------------- text

NL == "\n"

RECURSIVE Texts(_, _)
\* Every text of at most n pieces over the given pieces.
Texts(pieces, n) ==
    IF n = 0 THEN {<<>>}
    ELSE LET shorter == Texts(pieces, n - 1)
         IN  shorter \cup {Append(t, p) : t \in shorter, p \in pieces}

HasNL(t) == \E i \in 1..Len(t) : t[i] = NL

FirstNL(t) == CHOOSE i \in 1..Len(t) : t[i] = NL /\ \A j \in 1..(i - 1) : t[j] # NL

RECURSIVE Split(_)
\* str.split("\n"): the pieces between line breaks; always at least one line.
Split(t) ==
    IF ~HasNL(t) THEN <<t>>
    ELSE LET i == FirstNL(t)
         IN  <<SubSeq(t, 1, i - 1)>> \o Split(SubSeq(t, i + 1, Len(t)))

\* str.splitlines(): as Split, but a final line break ends the last line instead
\* of starting an empty one, and the empty text has no line.
splitlines(t) ==
    IF t = <<>> THEN <<>>
    ELSE IF t[Len(t)] = NL THEN Split(SubSeq(t, 1, Len(t) - 1))
    ELSE Split(t)

RECURSIVE join(_, _)
\* sep.join(lines)
join(sep, lines) ==
    IF lines = <<>> THEN <<>>
    ELSE IF Len(lines) = 1 THEN lines[1]
    ELSE lines[1] \o sep \o join(sep, Tail(lines))

\* needle in text (substring test)
Contains(text, needle) ==
    \E i \in 0..(Len(text) - Len(needle)) :
        SubSeq(text, i + 1, i + Len(needle)) = needle

Digit(d) == <<"0", "1", "2", "3", "4", "5", "6", "7", "8", "9">>[d + 1]

RECURSIVE Dec(_)
\* str(n) of a natural number, one piece per digit
Dec(n) == IF n < 10 THEN <<Digit(n)>> ELSE Dec(n \div 10) \o <<Digit(n % 10)>>

\* ------------------------------------------------------- optional values

None == <<>>
Some(v) == <<v>>

\* Python truthiness of an optional text: None and the empty text are false.
Truthy(opt) == opt # None /\ opt[1] # <<>>

\* ------------------------------------------------------ child processes

ExitCodes == {0, 1}

\* What the operating system does with one subprocess.run: the binary is not
\* on the path, the spawn fails otherwise, or the child runs and exits.
Outcomes(stdouts) ==
    {[kind |-> k, code |-> 0, stdout |-> <<>>] : k \in {"missing", "oserror"}}
    \cup {[kind |-> "exited", code |-> c, stdout |-> s] : c \in ExitCodes, s \in stdouts}

\* subprocess.run(argv, capture_output=True, text=True, check=check)
subprocess_run(check, o) ==
    IF o.kind # "exited" \/ (check /\ o.code # 0)
    THEN [raised |-> TRUE, stdout |-> <<>>, returncode |-> o.code]
    ELSE [raised |-> FALSE, stdout |-> o.stdout, returncode |-> o.code]

Proc(argv, text) == [argv |-> argv, text |-> text]

\* ---------------------------------------------------- generate_slurm_args

OptionNames == {"partition", "ntasks", "cpus_per_task", "mem", "time", "job_name"}
IntOptions == {"ntasks", "cpus_per_task"}

\* The defaults of the keyword parameters.
DefaultArgs ==
    [partition |-> <<"default">>, ntasks |-> 1, cpus_per_task |-> 1,
     mem |-> <<"2G">>, time |-> <<"1:00:00">>, job_name |-> <<"python_job">>]

\* The value a parameter takes in a call with keyword arguments kwargs.
Arg(kwargs, o) == IF o \in DOMAIN kwargs THEN kwargs[o] ELSE DefaultArgs[o]

\* Mutant: the mem and time directives change places.
slurm_args_swapped(partition, ntasks, cpus_per_task, mem, time, job_name) ==
    << <<"#SBATCH --partition=">> \o partition,
       <<"#SBATCH --ntasks=">> \o Dec(ntasks),
       <<"#SBATCH --cpus-per-task=">> \o Dec(cpus_per_task),
       <<"#SBATCH --time=">> \o time,
       <<"#SBATCH --mem=">> \o mem,
       <<"#SBATCH --job-name=">> \o job_name,
       <<"#SBATCH --output=", "slurm_">> \o job_name \o <<"_%j.out">>,
       <<"#SBATCH --error=", "slurm_">> \o job_name \o <<"_%j.err">> >>

\* The list of the eight directives.
slurm_args(partition, ntasks, cpus_per_task, mem, time, job_name) ==
    << <<"#SBATCH --partition=">> \o partition,
       <<"#SBATCH --ntasks=">> \o Dec(ntasks),
       <<"#SBATCH --cpus-per-task=">> \o Dec(cpus_per_task),
       <<"#SBATCH --mem=">> \o mem,
       <<"#SBATCH --time=">> \o time,
       <<"#SBATCH --job-name=">> \o job_name,
       <<"#SBATCH --output=", "slurm_">> \o job_name \o <<"_%j.out">>,
       <<"#SBATCH --error=", "slurm_">> \o job_name \o <<"_%j.err">> >>

\* Mutant: the test is inverted.
IsNotScavenger(partition) == partition # <<"scavenger">>

\* if partition == 'scavenger'
IsScavenger(partition) == partition = <<"scavenger">>

generate_slurm_args(kwargs) ==
    LET partition == Arg(kwargs, "partition")
        args == slurm_args(partition, Arg(kwargs, "ntasks"), Arg(kwargs, "cpus_per_task"),
                           Arg(kwargs, "mem"), Arg(kwargs, "time"), Arg(kwargs, "job_name"))
        all == IF IsScavenger(partition)
               THEN Append(args, <<"#SBATCH --requeue">>)
               ELSE args
    IN  join(<<NL>>, all)

\* ------------------------------------------------------------ the script

\* if preamble: tmpfile.write(preamble + "\n")
PreambleBlock(preamble) == IF Truthy(preamble) THEN preamble[1] \o <<NL>> ELSE <<>>

\* tmpfile.write(f"python - <<EOF\n{python_script}\nEOF\n")
HeredocBlock(python_script) == <<"python - <<EOF", NL>> \o python_script \o <<NL, "EOF", NL>>

\* Mutant: the blank line is written only with the preamble.
ScriptTextBlankWithPreamble(python_script, preamble, kwargs) ==
    <<"#!/bin/bash", NL>>
    \o generate_slurm_args(kwargs) \o <<NL>>
    \o (IF Truthy(preamble) THEN preamble[1] \o <<NL>> \o <<NL>> ELSE <<>>)
    \o HeredocBlock(python_script)

\* Everything submit_script writes to the temporary file, in order.
ScriptText(python_script, preamble, kwargs) ==
    <<"#!/bin/bash", NL>>
    \o generate_slurm_args(kwargs) \o <<NL>>
    \o PreambleBlock(preamble)
    \o <<NL>>
    \o HeredocBlock(python_script)

\* ----------------------------------------------------------------- state

VARIABLES
    slurm_available,   \* self.slurm_available: the flag cached by __init__
    sbatch_installed,  \* environment: whether sbatch is on the path right now
    disk,              \* environment: the temporary script files that exist
    last               \* the call that has just ended: its inputs and its effects

vars == <<slurm_available, sbatch_installed, disk, last>>

TmpNames == 1..MaxTmpFiles

\* ---------------------------------------------------------------- inputs

SbatchMarker == <<"s", "b", "a", "t", "c", "h">>

\* Standard output of `sbatch --version`, one character per piece.
VersionOutputs ==
    {pre \o mid \o suf :
        pre \in {<<>>, <<"x">>},
        mid \in {SbatchMarker, <<"s", "b", "a", "t", "c">>, <<"s", "b", "t", "a", "c", "h">>,
                 <<"s", "l", "u", "r", "m">>},
        suf \in {<<>>, <<" ", "2", "3", NL>>}}

SubmitOutputs == {<<>>, <<"Submitted batch job 42", NL>>}
PythonOutputs == {<<>>, <<"1", NL>>}
QueueOutputs == {<<>>, <<"JOBID PARTITION NAME", NL, "42 default train", NL>>}
CancelOutputs == {<<>>, <<"scancel: error", NL>>}

\* Standard output of `squeue -h -o %i`, one character per piece.
JobIdOutputs == Texts({"7", NL}, MaxOutLen)

Payloads == Texts({"print(1)", "EOF", NL}, MaxPayloadLen)
Preambles == {None} \cup {Some(t) : t \in Texts({"module load python", NL}, MaxPreambleLen)}

ValuePieces == {"gpu", "scavenger", NL, "#SBATCH --requeue", "#SBATCH --mem="}
Values == Texts(ValuePieces, MaxValueLen)
IntValues == {1, 4, 16}

\* Keyword arguments: the options in `supplied`, the text ones with value t and
\* the integer ones with value n.
KwargsOf(supplied, t, n) == [o \in supplied |-> IF o \in IntOptions THEN n ELSE t]

SubmitKwargs ==
    {KwargsOf({}, <<>>, 1), KwargsOf({"partition"}, <<"scavenger">>, 1),
     KwargsOf({"job_name", "ntasks"}, <<"gpu">>, 4)}

JobNames == {"train", "sweep"}
JobStates == {"RUNNING", "PENDING"}

\* What sbatch can do now: it cannot be spawned when it is not installed.
SbatchOutcomes(installed, stdouts) ==
    {o \in Outcomes(stdouts) : (o.kind = "missing") <=> ~installed}

NoOutcome == [kind |-> "none", code |-> 0, stdout |-> <<>>]

\* No call in progress or remembered.
NoCall ==
    [op |-> "idle", python_script |-> <<>>, preamble |-> None, kwargs |-> <<>>,
     state |-> None, job_name |-> "", o |-> NoOutcome, outcome |-> "none",
     text |-> <<>>, count |-> 0, bool |-> FALSE, attempts |-> <<>>,
     created |-> {}, script |-> <<>>]

\* ----------------------------------------------------- availability probe

\* Mutant: the probe without check=True.
slurm_available_unchecked(o) ==
    LET result == subprocess_run(FALSE, o)
    IN  IF result.raised THEN FALSE ELSE Contains(result.stdout, SbatchMarker)

\* slurm_available(): sbatch --version with check=True, any exception is False.
slurm_available_method(o) ==
    LET result == subprocess_run(TRUE, o)
    IN  IF result.raised THEN FALSE ELSE Contains(result.stdout, SbatchMarker)

\* is_slurm_available(): the same code again.
is_slurm_available_method(o) ==
    LET result == subprocess_run(TRUE, o)
    IN  IF result.raised THEN FALSE ELSE Contains(result.stdout, SbatchMarker)

VersionArgv == <<"sbatch", "--version">>

\* __init__: the state after construction.
Init ==
    \E installed \in BOOLEAN :
      \E o \in SbatchOutcomes(installed, VersionOutputs) :
        /\ sbatch_installed = installed
        /\ slurm_available = slurm_available_method(o)
        /\ disk = {}
        /\ last = [NoCall EXCEPT !.op = "__init__", !.o = o, !.outcome = "returned",
                                 !.bool = slurm_available_method(o),
                                 !.attempts = <<Proc(VersionArgv, <<>>)>>]

\* Mutant: is_slurm_available stores what it found in the cached flag.
is_slurm_available_storing ==
    /\ last.op = "idle"
    /\ \E o \in SbatchOutcomes(sbatch_installed, VersionOutputs) :
         /\ last' = [NoCall EXCEPT !.op = "is_slurm_available", !.o = o,
                                   !.outcome = "returned",
                                   !.bool = is_slurm_available_method(o),
                                   !.attempts = <<Proc(VersionArgv, <<>>)>>]
         /\ slurm_available' = is_slurm_available_method(o)
    /\ UNCHANGED <<sbatch_installed, disk>>

is_slurm_available ==
    /\ last.op = "idle"
    /\ \E o \in SbatchOutcomes(sbatch_installed, VersionOutputs) :
         last' = [NoCall EXCEPT !.op = "is_slurm_available", !.o = o,
                                !.outcome = "returned",
                                !.bool = is_slurm_available_method(o),
                                !.attempts = <<Proc(VersionArgv, <<>>)>>]
    /\ UNCHANGED <<slurm_available, sbatch_installed, disk>>

\* ------------------------------------------------------ generate_slurm_args

GenerateSlurmArgs ==
    /\ last.op = "idle"
    /\ \E supplied \in SUBSET OptionNames, t \in Values, n \in IntValues :
         LET kwargs == KwargsOf(supplied, t, n)
         IN  last' = [NoCall EXCEPT !.op = "generate_slurm_args", !.kwargs = kwargs,
                                    !.outcome = "returned",
                                    !.text = generate_slurm_args(kwargs)]
    /\ UNCHANGED <<slurm_available, sbatch_installed, disk>>

\* ------------------------------------------------------------ submit_script

\* Mutant: the branch is taken on what a fresh probe would find.
UseSlurmIfInstalled == sbatch_installed

\* Mutant: the scheduler branch is taken whatever the flag.
UseSlurmAlways == TRUE

\* if self.slurm_available:
UseSlurm == slurm_available

\* Mutant: delete=False, the file outlives its with block.
TmpFileKeep(files, name) == files

\* NamedTemporaryFile(mode="w", suffix=".sh", delete=True) leaving its with block
TmpFileExit(files, name) == files \ {name}

LocalArgv == <<"python", "-c", "<python_script>">>

submit_script ==
    /\ last.op = "idle"
    /\ \E python_script \in Payloads, preamble \in Preambles, kwargs \in SubmitKwargs :
         LET call == [NoCall EXCEPT !.op = "submit_script", !.python_script = python_script,
                                    !.preamble = preamble, !.kwargs = kwargs]
         IN  IF UseSlurm
             THEN \E name \in TmpNames \ disk, written \in BOOLEAN,
                     o \in SbatchOutcomes(sbatch_installed, SubmitOutputs) :
                    LET script == ScriptText(python_script, preamble, kwargs)
                        result == subprocess_run(FALSE, o)
                    IN  /\ disk' = TmpFileExit(disk \cup {name}, name)
                        /\ last' =
                             IF ~written
                             THEN [call EXCEPT !.outcome = "raised", !.created = {name}]
                             ELSE [call EXCEPT
                                     !.o = o,
                                     !.outcome = IF result.raised THEN "raised" ELSE "returned",
                                     !.text = result.stdout,
                                     !.attempts = <<Proc(<<"sbatch", "<tmpfile.name>">>, <<>>)>>,
                                     !.created = {name},
                                     !.script = script]
             ELSE \E o \in Outcomes(PythonOutputs) :
                    LET result == subprocess_run(FALSE, o)
                    IN  /\ disk' = disk
                        /\ last' = [call EXCEPT
                                      !.o = o,
                                      !.outcome = IF result.raised THEN "raised" ELSE "returned",
                                      !.text = result.stdout,
                                      !.attempts = <<Proc(LocalArgv, python_script)>>]
    /\ UNCHANGED <<slurm_available, sbatch_installed>>

\* ---------------------------------------------------------- queue and cancel

count_jobs ==
    /\ last.op = "idle"
    /\ \E state \in JobStates, o \in Outcomes(JobIdOutputs) :
         LET result == subprocess_run(FALSE, o)
             jobs == splitlines(result.stdout)
         IN  last' = [NoCall EXCEPT
                        !.op = "count_jobs", !.state = Some(state), !.o = o,
                        !.outcome = IF result.raised THEN "raised" ELSE "returned",
                        !.count = Len(jobs),
                        !.attempts = <<Proc(<<"squeue", "-h", "-t", state, "-o", "%i">>, <<>>)>>]
    /\ UNCHANGED <<slurm_available, sbatch_installed, disk>>

count_jobs_by_name ==
    /\ last.op = "idle"
    /\ \E job_name \in JobNames, state \in {None} \cup {Some(s) : s \in JobStates},
          o \in Outcomes(JobIdOutputs) :
         LET cmd == <<"squeue", "-h", "-n", job_name, "-o", "%i">>
                    \o (IF state # None THEN <<"-t", state[1]>> ELSE <<>>)
             result == subprocess_run(FALSE, o)
             jobs == splitlines(result.stdout)
         IN  last' = [NoCall EXCEPT
                        !.op = "count_jobs_by_name", !.job_name = job_name,
                        !.state = state, !.o = o,
                        !.outcome = IF result.raised THEN "raised" ELSE "returned",
                        !.count = Len(jobs),
                        !.attempts = <<Proc(cmd, <<>>)>>]
    /\ UNCHANGED <<slurm_available, sbatch_installed, disk>>

cancel_jobs_by_name ==
    /\ last.op = "idle"
    /\ \E job_name \in JobNames, o \in Outcomes(CancelOutputs) :
         LET result == subprocess_run(FALSE, o)
         IN  last' = [NoCall EXCEPT
                        !.op = "cancel_jobs_by_name", !.job_name = job_name, !.o = o,
                        !.outcome = IF result.raised THEN "raised" ELSE "returned",
                        !.text = result.stdout,
                        !.attempts = <<Proc(<<"scancel", "--name", job_name>>, <<>>)>>]
    /\ UNCHANGED <<slurm_available, sbatch_installed, disk>>

view_queue ==
    /\ last.op = "idle"
    /\ \E o \in Outcomes(QueueOutputs) :
         LET result == subprocess_run(FALSE, o)
         IN  last' = [NoCall EXCEPT
                        !.op = "view_queue", !.o = o,
                        !.outcome = IF result.raised THEN "raised" ELSE "returned",
                        !.text = result.stdout,
                        !.attempts = <<Proc(<<"squeue">>, <<>>)>>]
    /\ UNCHANGED <<slurm_available, sbatch_installed, disk>>

\* ------------------------------------------------------------ environment

\* The caller takes the result of the call that ended; the adapter keeps nothing
\* of it (no call stores anything on self).
Return ==
    /\ last.op # "idle"
    /\ last' = NoCall
    /\ UNCHANGED <<slurm_available, sbatch_installed, disk>>

\* sbatch is installed or removed between two calls.
SbatchChanges ==
    /\ last.op = "idle"
    /\ sbatch_installed' = ~sbatch_installed
    /\ UNCHANGED <<slurm_available, disk, last>>

Next ==
    \/ is_slurm_available
    \/ GenerateSlurmArgs
    \/ submit_script
    \/ count_jobs
    \/ count_jobs_by_name
    \/ cancel_jobs_by_name
    \/ view_queue
    \/ Return
    \/ SbatchChanges

Spec == Init /\ [][Next]_vars

\* ------------------------------------------------------------------ claims

SubmitEnded == last.op = "submit_script"

(* C1: a submit_script call made with the cached flag true has created a
   temporary script file, and that file is not on disk once the call has
   ended, whether it returned sbatch's stdout or raised while writing the
   script or while invoking sbatch. *)
C1_TmpFileGone ==
    (SubmitEnded /\ slurm_available) =>
        /\ last.created # {}
        /\ last.created \cap disk = {}

\* The call raised because sbatch could not be spawned, after creating its file.
C1_Witness ==
    /\ SubmitEnded /\ slurm_available
    /\ last.outcome = "raised" /\ last.o.kind = "missing"
    /\ last.created # {}

(* C2: with the cached flag false, submit_script runs python -c payload and
   nothing else, returns that process's stdout whatever its exit code, and
   creates no temporary file. *)
C2_LocalFallback ==
    (SubmitEnded /\ ~slurm_available) =>
        /\ Len(last.attempts) = 1
        /\ last.attempts[1].argv = <<"python", "-c", "<python_script>">>
        /\ last.attempts[1].text = last.python_script
        /\ last.created = {}
        /\ disk = {}
        /\ (last.o.kind = "exited" =>
              last.outcome = "returned" /\ last.text = last.o.stdout)

\* The payload ran locally, exited non-zero with output, and the output came back.
C2_Witness ==
    /\ SubmitEnded /\ ~slurm_available
    /\ last.o.kind = "exited" /\ last.o.code = 1 /\ last.o.stdout # <<>>
    /\ last.text = last.o.stdout

\* The marker "sbatch" occurs in the text, character by character.
MarkerIn(text) ==
    \E i \in 1..Len(text) :
        \A k \in 1..6 :
            /\ i + k - 1 <= Len(text)
            /\ text[i + k - 1] = <<"s", "b", "a", "t", "c", "h">>[k]

ProbeEnded == last.op \in {"__init__", "is_slurm_available"}

(* C3: the availability probe, at construction and in is_slurm_available,
   never raises and returns true exactly when `sbatch --version` exited with
   status zero and its stdout contains "sbatch"; the constructor caches that
   value. *)
C3_Probe ==
    ProbeEnded =>
        /\ last.outcome = "returned"
        /\ last.bool <=> (last.o.kind = "exited" /\ last.o.code = 0 /\ MarkerIn(last.o.stdout))
        /\ (last.op = "__init__" => slurm_available = last.bool)

\* sbatch printed its name but exited non-zero: the probe said false.
C3_Witness ==
    /\ last.op = "is_slurm_available"
    /\ last.o.kind = "exited" /\ last.o.code = 1 /\ MarkerIn(last.o.stdout)
    /\ ~last.bool

(* C4: no call changes the cached availability flag, and submit_script never
   runs the probe (sbatch --version). *)
C4_FlagFrozen ==
    [][/\ slurm_available' = slurm_available
       /\ (last'.op = "submit_script" =>
             \A i \in 1..Len(last'.attempts) :
                 last'.attempts[i].argv # <<"sbatch", "--version">>)]_vars

\* is_slurm_available has just found sbatch gone, and the flag still says true.
C4_Witness ==
    /\ last.op = "is_slurm_available" /\ ~last.bool
    /\ slurm_available /\ ~sbatch_installed

\* The number of lines of the text that hold at least one character.
NonEmptyLineCount(text) ==
    Cardinality({i \in 1..Len(text) : text[i] # NL /\ (i = 1 \/ text[i - 1] = NL)})

CountEnded == last.op \in {"count_jobs", "count_jobs_by_name"} /\ last.outcome = "returned"

(* C5: count_jobs and count_jobs_by_name return the number of non-empty lines
   of squeue's stdout; blank lines are not counted. *)
C5_CountsNonEmptyLines == CountEnded => last.count = NonEmptyLineCount(last.o.stdout)

\* The script sbatch was given, line by line.
ScriptWritten == SubmitEnded /\ last.script # <<>>

HeredocStart == <<"python - <<EOF">>
HeredocEnd == <<"EOF">>

\* The lines between the first heredoc opening line and the first closing line
\* after it.
HeredocBody(lines) ==
    LET open == CHOOSE i \in 1..Len(lines) :
                    lines[i] = HeredocStart /\ \A j \in 1..(i - 1) : lines[j] # HeredocStart
        close == CHOOSE i \in (open + 1)..Len(lines) :
                    lines[i] = HeredocEnd /\ \A j \in (open + 1)..(i - 1) : lines[j] # HeredocEnd
    IN  SubSeq(lines, open + 1, close - 1)

(* C6: for every payload, a line "EOF" included, the script begins with the
   shebang line and the lines between "python - <<EOF" and the first following
   line "EOF" are exactly the payload's lines. *)
C6_PayloadVerbatim ==
    ScriptWritten =>
        /\ Split(last.script)[1] = <<"#!/bin/bash">>
        /\ HeredocBody(Split(last.script)) = Split(last.python_script)

\* The directive keys in their documented order, as they start a line.
DirectivePrefixes ==
    <<"#SBATCH --partition=", "#SBATCH --ntasks=", "#SBATCH --cpus-per-task=",
      "#SBATCH --mem=", "#SBATCH --time=", "#SBATCH --job-name=",
      "#SBATCH --output=", "#SBATCH --error=">>

RequeueLine == <<"#SBATCH --requeue">>

\* Which directive a line sets: its place in DirectivePrefixes, 0 for none.
KeyIndex(line) ==
    IF line # <<>> /\ \E i \in 1..8 : DirectivePrefixes[i] = line[1]
    THEN CHOOSE i \in 1..8 : DirectivePrefixes[i] = line[1]
    ELSE 0

IsDirective(line) == KeyIndex(line) # 0

\* The directives the lines set, in the order of the lines.
LineKeys(lines) ==
    LET set == SelectSeq(lines, IsDirective)
    IN  [j \in 1..Len(set) |-> KeyIndex(set[j])]

\* How many of the lines are the requeue directive.
RequeueCount(lines) == Cardinality({i \in 1..Len(lines) : lines[i] = RequeueLine})

\* The documented default of each option, as its directive line shows it.
DocumentedDefault ==
    [partition |-> <<"default">>, ntasks |-> <<"1">>, cpus_per_task |-> <<"1">>,
     mem |-> <<"2G">>, time |-> <<"1:00:00">>, job_name |-> <<"python_job">>]

OptionOrder == <<"partition", "ntasks", "cpus_per_task", "mem", "time", "job_name">>

ArgsEnded == last.op = "generate_slurm_args"

\* No text value given to the call holds a line break.
SingleLineValues(kwargs) == \A o \in (DOMAIN kwargs) \ IntOptions : ~HasNL(kwargs[o])

\* One line per option, in order, the options not supplied showing their default.
OneLinePerOption(kwargs, lines) ==
    LET set == SelectSeq(lines, IsDirective)
    IN  /\ LineKeys(lines) = <<1, 2, 3, 4, 5, 6, 7, 8>>
        /\ \A i \in 1..6 :
             OptionOrder[i] \notin DOMAIN kwargs =>
                 set[i] = <<DirectivePrefixes[i]>> \o DocumentedDefault[OptionOrder[i]]

(* C7 as stated: for every set of options, generate_slurm_args holds exactly
   one directive line per key, in the fixed order, with no duplicate key. *)
C7_AsStated == ArgsEnded => OneLinePerOption(last.kwargs, Split(last.text))

(* C7 amended: for every set of options whose text values hold no line break,
   generate_slurm_args holds exactly one directive line per key (partition,
   ntasks, cpus-per-task, mem, time, job-name, output, error), in that order,
   with no duplicate key, the options not supplied showing their defaults. *)
C7_OneLinePerOption ==
    (ArgsEnded /\ SingleLineValues(last.kwargs)) =>
        OneLinePerOption(last.kwargs, Split(last.text))

\* Some options supplied with a one-line value, the others left to their defaults.
C7_Witness ==
    /\ ArgsEnded
    /\ DOMAIN last.kwargs = {"mem", "ntasks"}
    /\ last.kwargs["mem"] = <<"gpu">> /\ last.kwargs["ntasks"] = 16

\* The partition of the call, by the documented default when not supplied.
PartitionOf(kwargs) ==
    IF "partition" \in DOMAIN kwargs THEN kwargs["partition"] ELSE <<"default">>

\* The requeue line is there exactly for partition scavenger, once, and last,
\* after the eight option directives.
RequeueIffScavenger(kwargs, lines) ==
    /\ RequeueCount(lines) <= 1
    /\ RequeueCount(lines) = 1 <=> PartitionOf(kwargs) = <<"scavenger">>
    /\ RequeueCount(lines) = 1 =>
          /\ lines[Len(lines)] = RequeueLine
          /\ LineKeys(SubSeq(lines, 1, Len(lines) - 1)) = <<1, 2, 3, 4, 5, 6, 7, 8>>

(* C8 as stated: for every set of options, the output holds a requeue line if
   and only if partition is 'scavenger'; it is then the last line, after the
   eight option directives, and appears once. *)
C8_AsStated == ArgsEnded => RequeueIffScavenger(last.kwargs, Split(last.text))

(* C8 amended: for every set of options whose text values hold no line break,
   the output holds a requeue line if and only if partition is 'scavenger'; it
   is then the last line, after the eight option directives, and appears once. *)
C8_RequeueIffScavenger ==
    (ArgsEnded /\ SingleLineValues(last.kwargs)) =>
        RequeueIffScavenger(last.kwargs, Split(last.text))

\* Partition scavenger was asked for and the requeue line is there.
C8_Witness ==
    /\ ArgsEnded
    /\ PartitionOf(last.kwargs) = <<"scavenger">>
    /\ RequeueCount(Split(last.text)) = 1

\* The last line of the script that is a directive (an option or requeue).
LastDirective(lines) ==
    CHOOSE i \in 1..Len(lines) :
        /\ IsDirective(lines[i]) \/ lines[i] = RequeueLine
        /\ \A j \in (i + 1)..Len(lines) : ~IsDirective(lines[j]) /\ lines[j] # RequeueLine

\* From line `from` on: the given lines, then a blank line, then the heredoc.
BlockThenBlankThenHeredoc(lines, from, block) ==
    /\ SubSeq(lines, from, from + Len(block) - 1) = block
    /\ lines[from + Len(block)] = <<>>
    /\ lines[from + Len(block) + 1] = HeredocStart

(* C9 as stated: the preamble and a blank line stand between the directives
   and the heredoc exactly when a preamble is provided; with no preamble the
   heredoc block directly follows the last directive line. *)
C9_AsStated ==
    ScriptWritten =>
        LET lines == Split(last.script)
            d == LastDirective(lines)
        IN  IF last.preamble # None
            THEN BlockThenBlankThenHeredoc(lines, d + 1, Split(last.preamble[1]))
            ELSE lines[d + 1] = HeredocStart

(* C9 amended: one blank line always stands right before the heredoc block.
   When a non-empty preamble is provided, the preamble text stands verbatim
   between the last directive line and that blank line; when no preamble or an
   empty one is provided, the blank line directly follows the last directive
   line. *)
C9_PreambleAndBlank ==
    ScriptWritten =>
        LET lines == Split(last.script)
            d == LastDirective(lines)
        IN  IF last.preamble # None /\ last.preamble[1] # <<>>
            THEN BlockThenBlankThenHeredoc(lines, d + 1, Split(last.preamble[1]))
            ELSE BlockThenBlankThenHeredoc(lines, d + 1, <<>>)

\* A script written without a preamble: the blank line is there all the same.
C9_Witness ==
    /\ ScriptWritten
    /\ last.preamble = None
    /\ Split(last.script)[LastDirective(Split(last.script)) + 1] = <<>>

(* C10: submit_script takes its branch on the cached flag alone.  With the
   flag true it only ever tries sbatch, and when sbatch is gone the failure to
   spawn it is raised and the payload is not run locally; with the flag false
   it runs the payload locally and never sbatch, even when sbatch is there.
   A call tries at most one child process. *)
C10_BranchOnCachedFlag ==
    SubmitEnded =>
        /\ Len(last.attempts) <= 1
        /\ slurm_available =>
              /\ \A i \in 1..Len(last.attempts) : last.attempts[i].argv[1] = "sbatch"
              /\ ~sbatch_installed => last.outcome = "raised"
        /\ ~slurm_available =>
              /\ Len(last.attempts) = 1
              /\ last.attempts[1].argv[1] = "python"

\* The flag says available, sbatch is gone: the call tried sbatch and raised.
C10_Witness ==
    /\ SubmitEnded /\ slurm_available /\ ~sbatch_installed
    /\ Len(last.attempts) = 1 /\ last.attempts[1].argv[1] = "sbatch"
    /\ last.outcome = "raised"

====
